---- MODULE Spec2Model ----
(***************************************************************************)
(* Model of src/dns/trust_dns.rs: the process-wide SYSTEM_CONF cache, the  *)
(* TrustDnsResolver adapter with its lazily constructed shared resolver,   *)
(* and the SocketAddrs iterator returned by resolve.                       *)
(*                                                                         *)
(* Every caller is a task.  A task runs one call at a time; each call is   *)
(* cut at the points where another task can interleave: taking a lock,     *)
(* the body run under a lock, an await.                                    *)
(***************************************************************************)
EXTENDS Integers, Sequences, FiniteSets, TLC

\* ---- bounds of the model ------------------------------------------------
NumTasks == 2
MaxCalls == 4
MaxIps == 2
MaxExtraNext == 1
MaxAdapters == 2

Tasks == 1..NumTasks
NoTask == 0
Ips == {1, 2}
Names == {"example.com"}

\* ---- values ---------------------------------------------------------------
\* Lazy<io::Result<(ResolverConfig, ResolverOpts)>>: not yet computed, or the
\* outcome of the id-th OS read.
NotComputed == [kind |-> "None", id |-> 0]

ConfOk(n) == [kind |-> "Ok", id |-> n]

ConfErr(n) == [kind |-> "Err", id |-> n]

\* Errors.  prefix is the text put in front of the source error's message.
NoErr == [type |-> "none", id |-> 0, prefix |-> ""]

ConfigError(n) == [type |-> "ConfigError", id |-> n, prefix |-> ""]

ConstructError(n) == [type |-> "ConstructError", id |-> n, prefix |-> ""]

LookupError(n) == [type |-> "LookupError", id |-> n, prefix |-> ""]

\* What a call returned to its caller.
NoOutcome == [kind |-> "None", err |-> NoErr]

RetOk == [kind |-> "Ok", err |-> NoErr]

RetErr(e) == [kind |-> "Err", err |-> e]

Panicked == [kind |-> "Panic", err |-> NoErr]

\* The caller dropped the future of the call before it completed.
Cancelled == [kind |-> "Cancelled", err |-> NoErr]

\* SharedResolver: the id-th resolver built, from the config of OS read cfg,
\* for state cell `cell`.
NoHandle == [id |-> 0, cfg |-> 0, cell |-> 0]

\* enum State { Init, Ready(SharedResolver) }
StateInit == [tag |-> "Init", h |-> NoHandle]

StateReady(h) == [tag |-> "Ready", h |-> h]

\* SocketAddr::new(ip, port)
SocketAddr(ip, port) == [ip |-> ip, port |-> port]

NoneItem == [some |-> FALSE, addr |-> SocketAddr(0, 0)]

SomeItem(a) == [some |-> TRUE, addr |-> a]

\* All the IP lists of at most MaxIps addresses.
IpLists == UNION {[1..n -> Ips] : n \in 0..MaxIps}

\* The answer of the resolver engine in the example of the specification:
\* [10.0.0.1, 10.0.0.2].
ExampleAnswers == {<<1, 2>>}

VARIABLES
    conf,         \* SYSTEM_CONF: the Lazy inside the mutex
    confLock,     \* owner of the SYSTEM_CONF mutex
    osReads,      \* number of system_conf::read_system_conf() invocations
    state,        \* state[c]: the State inside cell c (an Arc<Mutex<State>>)
    stateLock,    \* stateLock[c]: owner of cell c's mutex
    adapters,     \* adapters[a]: the cell that TrustDnsResolver a points to
    nrCalls,      \* nrCalls[c]: invocations of new_resolver() for cell c
    built,        \* the resolvers constructed so far
    answers,      \* the IP lists the resolver engine may answer a lookup with
    calls,        \* number of calls started
    pc,           \* pc[t]: where task t is in its call
    op,           \* op[t]: the call task t is running
    cell,         \* cell[t]: resolver.state of the resolve call of t
    name,         \* name[t]: the hostname passed to resolve
    resolver,     \* resolver[t]: the local `resolver` handle of resolve
    ret,          \* ret[t]: what get_system_conf() returned to t
    outcome,      \* outcome[t]: what the call of t returned
    lookup,       \* lookup[t]: the IPs lookup_ip returned to t
    iter,         \* iter[t]: SocketAddrs.iter, the IPs not yet yielded
    out,          \* out[t]: the results of the next() calls made so far
    first         \* first[t]: new_resolver() had never been invoked for the
                  \* cell when the resolve call of t started (history)

vars == <<conf, confLock, osReads, state, stateLock, adapters, nrCalls,
          built, answers, calls, pc, op, cell, name, resolver, ret, outcome,
          lookup, iter, out, first>>

confVars == <<conf, confLock, osReads>>

cellVars == <<state, stateLock, adapters, nrCalls, built, answers>>

localVars == <<cell, name, resolver, ret, outcome, lookup, iter, out, first>>

Cells == 1..Len(state)

Init ==
    /\ conf = NotComputed
    /\ confLock = NoTask
    /\ osReads = 0
    /\ state = <<>>
    /\ stateLock = <<>>
    /\ adapters = <<>>
    /\ nrCalls = <<>>
    /\ built = {}
    /\ answers = ExampleAnswers
    /\ calls = 0
    /\ pc = [t \in Tasks |-> "idle"]
    /\ op = [t \in Tasks |-> "none"]
    /\ cell = [t \in Tasks |-> 0]
    /\ name = [t \in Tasks |-> ""]
    /\ resolver = [t \in Tasks |-> NoHandle]
    /\ ret = [t \in Tasks |-> NotComputed]
    /\ outcome = [t \in Tasks |-> NoOutcome]
    /\ lookup = [t \in Tasks |-> <<>>]
    /\ iter = [t \in Tasks |-> <<>>]
    /\ out = [t \in Tasks |-> <<>>]
    /\ first = [t \in Tasks |-> FALSE]

\* Task t, which is in no call (it has made none yet, or its last one has
\* returned), starts call o at p, on cell c with hostname n: the locals of
\* the new call are fresh.
Start(t, o, p, c, n) ==
    /\ pc[t] \in {"idle", "done"}
    /\ calls < MaxCalls
    /\ calls' = calls + 1
    /\ op' = [op EXCEPT ![t] = o]
    /\ pc' = [pc EXCEPT ![t] = p]
    /\ cell' = [cell EXCEPT ![t] = c]
    /\ name' = [name EXCEPT ![t] = n]
    /\ resolver' = [resolver EXCEPT ![t] = NoHandle]
    /\ ret' = [ret EXCEPT ![t] = NotComputed]
    /\ outcome' = [outcome EXCEPT ![t] = NoOutcome]
    /\ lookup' = [lookup EXCEPT ![t] = <<>>]
    /\ iter' = [iter EXCEPT ![t] = <<>>]
    /\ out' = [out EXCEPT ![t] = <<>>]
    /\ first' = [first EXCEPT ![t] = IF o = "resolve" THEN nrCalls[c] = 0
                                     ELSE FALSE]

\* A call has returned `r` to its caller.
Finish(t, r) ==
    /\ pc' = [pc EXCEPT ![t] = "done"]
    /\ outcome' = [outcome EXCEPT ![t] = r]

\* ---- SYSTEM_CONF ----------------------------------------------------------
\* system_conf::read_system_conf().map_err(io::Error::from): either outcome.
ReadSystemConf(n) == {ConfOk(n), ConfErr(n)}

\* GetSystemConfLock, had the SYSTEM_CONF mutex excluded nobody.
GetSystemConfLock_NoExclusion(t) ==
    /\ pc[t] = "gsc_lock"
    /\ confLock' = t
    /\ pc' = [pc EXCEPT ![t] = "gsc_body"]
    /\ UNCHANGED <<conf, osReads, cellVars, calls, op, localVars>>

\* get_system_conf(), called by new() and by new_resolver():
\* let mut conf = SYSTEM_CONF.lock().unwrap();
GetSystemConfLock(t) ==
    /\ pc[t] = "gsc_lock"
    /\ confLock = NoTask
    /\ confLock' = t
    /\ pc' = [pc EXCEPT ![t] = "gsc_body"]
    /\ UNCHANGED <<conf, osReads, cellVars, calls, op, localVars>>

\* Where get_system_conf() returns to.
AfterGetSystemConf(o) == IF o = "new" THEN "new_ret" ELSE "nr_ret"

\* GetSystemConfBody, had the OS config been read on every call.
GetSystemConfBody_AlwaysReads(t) ==
    /\ pc[t] = "gsc_body"
    /\ confLock = t
    /\ \E r \in ReadSystemConf(osReads + 1) : conf' = r
    /\ osReads' = osReads + 1
    /\ ret' = [ret EXCEPT ![t] = conf']
    /\ confLock' = NoTask
    /\ pc' = [pc EXCEPT ![t] = AfterGetSystemConf(op[t])]
    /\ UNCHANGED <<cellVars, calls, op, cell, name, resolver, outcome,
                   lookup, iter, out, first>>

\* GetSystemConfBody, had a stored error been read again.
GetSystemConfBody_RetriesOnError(t) ==
    /\ pc[t] = "gsc_body"
    /\ confLock = t
    /\ IF conf = NotComputed \/ conf.kind = "Err"
         THEN /\ \E r \in ReadSystemConf(osReads + 1) : conf' = r
              /\ osReads' = osReads + 1
         ELSE UNCHANGED <<conf, osReads>>
    /\ ret' = [ret EXCEPT ![t] = conf']
    /\ confLock' = NoTask
    /\ pc' = [pc EXCEPT ![t] = AfterGetSystemConf(op[t])]
    /\ UNCHANGED <<cellVars, calls, op, cell, name, resolver, outcome,
                   lookup, iter, out, first>>

\* if conf.is_none() { *conf = Some(initialize_system_conf()); }
\* conf.clone().unwrap()   -- and the guard is dropped
GetSystemConfBody(t) ==
    /\ pc[t] = "gsc_body"
    /\ confLock = t
    /\ IF conf = NotComputed
         THEN /\ \E r \in ReadSystemConf(osReads + 1) : conf' = r
              /\ osReads' = osReads + 1
         ELSE UNCHANGED <<conf, osReads>>
    /\ ret' = [ret EXCEPT ![t] = conf']
    /\ confLock' = NoTask
    /\ pc' = [pc EXCEPT ![t] = AfterGetSystemConf(op[t])]
    /\ UNCHANGED <<cellVars, calls, op, cell, name, resolver, outcome,
                   lookup, iter, out, first>>

\* reinitialize_system_conf() is called.
ReinitCall(t) ==
    /\ Start(t, "reinit", "ri_lock", 0, "")
    /\ UNCHANGED <<confVars, cellVars>>

\* let mut conf = SYSTEM_CONF.lock().unwrap();
ReinitLock(t) ==
    /\ pc[t] = "ri_lock"
    /\ confLock = NoTask
    /\ confLock' = t
    /\ pc' = [pc EXCEPT ![t] = "ri_body"]
    /\ UNCHANGED <<conf, osReads, cellVars, calls, op, localVars>>

\* ReinitBody, had it reset the adapters as well.
ReinitBody_ResetsAdapters(t) ==
    /\ pc[t] = "ri_body"
    /\ confLock = t
    /\ conf' = NotComputed
    /\ confLock' = NoTask
    /\ state' = [c \in Cells |-> StateInit]
    /\ Finish(t, RetOk)
    /\ UNCHANGED <<osReads, stateLock, adapters, nrCalls, built, answers,
                   calls, op, cell, name, resolver, ret, lookup, iter, out,
                   first>>

\* *conf = Lazy::new(..);   -- and the guard is dropped
ReinitBody(t) ==
    /\ pc[t] = "ri_body"
    /\ confLock = t
    /\ conf' = NotComputed
    /\ confLock' = NoTask
    /\ Finish(t, RetOk)
    /\ UNCHANGED <<osReads, cellVars, calls, op, cell, name, resolver, ret,
                   lookup, iter, out, first>>

\* ---- TrustDnsResolver::new ------------------------------------------------
NewCall(t) ==
    /\ Start(t, "new", "gsc_lock", 0, "")
    /\ UNCHANGED <<confVars, cellVars>>

\* io::Error::new(e.kind(), format!("error reading DNS system conf: {}", e))
WrapConfError(e) == [e EXCEPT !.prefix = "error reading DNS system conf: "]

\* NewReturn, had the result of get_system_conf() been ignored.
NewReturn_IgnoresError(t) ==
    /\ pc[t] = "new_ret"
    /\ state' = Append(state, StateInit)
    /\ stateLock' = Append(stateLock, NoTask)
    /\ nrCalls' = Append(nrCalls, 0)
    /\ adapters' = Append(adapters, Len(state) + 1)
    /\ Finish(t, RetOk)
    /\ UNCHANGED <<confVars, built, answers, calls, op, cell, name, resolver,
                   ret, lookup, iter, out, first>>

\* NewReturn, had new() constructed the resolver from the snapshot it checked.
NewReturn_ConstructsEagerly(t) ==
    /\ pc[t] = "new_ret"
    /\ IF ret[t].kind = "Err"
         THEN /\ Finish(t, RetErr(WrapConfError(ConfigError(ret[t].id))))
              /\ UNCHANGED cellVars
         ELSE /\ \E h \in {[id |-> Cardinality(built) + 1, cfg |-> ret[t].id,
                              cell |-> Len(state) + 1]} :
                   /\ state' = Append(state, StateReady(h))
                   /\ built' = built \cup {h}
              /\ stateLock' = Append(stateLock, NoTask)
              /\ nrCalls' = Append(nrCalls, 0)
              /\ adapters' = Append(adapters, Len(state) + 1)
              /\ Finish(t, RetOk)
              /\ UNCHANGED answers
    /\ UNCHANGED <<confVars, calls, op, cell, name, resolver, ret, lookup,
                   iter, out, first>>

\* get_system_conf().as_ref().map_err(..)?;
\* Ok(TrustDnsResolver { state: Arc::new(Mutex::new(State::Init)) })
NewReturn(t) ==
    /\ pc[t] = "new_ret"
    /\ IF ret[t].kind = "Err"
         THEN /\ Finish(t, RetErr(WrapConfError(ConfigError(ret[t].id))))
              /\ UNCHANGED cellVars
         ELSE /\ state' = Append(state, StateInit)
              /\ stateLock' = Append(stateLock, NoTask)
              /\ nrCalls' = Append(nrCalls, 0)
              /\ adapters' = Append(adapters, Len(state) + 1)
              /\ Finish(t, RetOk)
              /\ UNCHANGED <<built, answers>>
    /\ UNCHANGED <<confVars, calls, op, cell, name, resolver, ret, lookup,
                   iter, out, first>>

\* CloneAdapter, had the clone got a state cell of its own, holding a copy of
\* the state.
CloneAdapter_DeepCopy(t, a) ==
    /\ pc[t] \in {"idle", "done"}
    /\ Len(adapters) < MaxAdapters
    /\ adapters' = Append(adapters, Len(state) + 1)
    /\ state' = Append(state, state[adapters[a]])
    /\ stateLock' = Append(stateLock, NoTask)
    /\ nrCalls' = Append(nrCalls, nrCalls[adapters[a]])
    /\ UNCHANGED <<confVars, built, answers, calls, pc, op, localVars>>

\* #[derive(Clone)]: a clone of adapter a shares its Arc<Mutex<State>>.
CloneAdapter(t, a) ==
    /\ pc[t] \in {"idle", "done"}
    /\ Len(adapters) < MaxAdapters
    /\ adapters' = Append(adapters, adapters[a])
    /\ UNCHANGED <<confVars, state, stateLock, nrCalls, built, answers,
                   calls, pc, op, localVars>>

\* ---- TrustDnsResolver::resolve --------------------------------------------
\* let resolver = self.clone();  and the future starts at state.lock().await
ResolveCall(t, a, n) ==
    /\ Start(t, "resolve", "st_lock", adapters[a], n)
    /\ UNCHANGED <<confVars, cellVars>>

\* AcquireState, had the state mutex excluded nobody.
AcquireState_NoExclusion(t) ==
    /\ pc[t] = "st_lock"
    /\ stateLock' = [stateLock EXCEPT ![cell[t]] = t]
    /\ pc' = [pc EXCEPT ![t] = "match"]
    /\ UNCHANGED <<confVars, state, adapters, nrCalls, built,
                   answers, calls, op, localVars>>

\* let mut lock = resolver.state.lock().await;
AcquireState(t) ==
    /\ pc[t] = "st_lock"
    /\ stateLock[cell[t]] = NoTask
    /\ stateLock' = [stateLock EXCEPT ![cell[t]] = t]
    /\ pc' = [pc EXCEPT ![t] = "match"]
    /\ UNCHANGED <<confVars, state, adapters, nrCalls, built,
                   answers, calls, op, localVars>>

\* MatchState, had Ready been treated like Init.
MatchState_AlwaysConstructs(t) ==
    /\ pc[t] = "match"
    /\ nrCalls' = [nrCalls EXCEPT ![cell[t]] = @ + 1]
    /\ pc' = [pc EXCEPT ![t] = "gsc_lock"]
    /\ UNCHANGED <<confVars, state, stateLock, adapters, built, answers,
                   calls, op, localVars>>

\* MatchState, had the guard been dropped between the check and the
\* construction.
MatchState_ReleasesEarly(t) ==
    /\ pc[t] = "match"
    /\ IF state[cell[t]].tag = "Init"
         THEN /\ nrCalls' = [nrCalls EXCEPT ![cell[t]] = @ + 1]
              /\ stateLock' = [stateLock EXCEPT ![cell[t]] = NoTask]
              /\ pc' = [pc EXCEPT ![t] = "gsc_lock"]
              /\ UNCHANGED resolver
         ELSE /\ resolver' = [resolver EXCEPT ![t] = state[cell[t]].h]
              /\ pc' = [pc EXCEPT ![t] = "drop"]
              /\ UNCHANGED <<nrCalls, stateLock>>
    /\ UNCHANGED <<confVars, state, adapters, built,
                   answers, calls, op, cell, name, ret, outcome, lookup, iter,
                   out, first>>

\* match &*lock { State::Init => new_resolver() is called,
\*                State::Ready(resolver) => resolver.clone() }
MatchState(t) ==
    /\ pc[t] = "match"
    /\ IF state[cell[t]].tag = "Init"
         THEN /\ nrCalls' = [nrCalls EXCEPT ![cell[t]] = @ + 1]
              /\ pc' = [pc EXCEPT ![t] = "gsc_lock"]
              /\ UNCHANGED resolver
         ELSE /\ resolver' = [resolver EXCEPT ![t] = state[cell[t]].h]
              /\ pc' = [pc EXCEPT ![t] = "drop"]
              /\ UNCHANGED nrCalls
    /\ UNCHANGED <<confVars, state, stateLock, adapters, built,
                   answers, calls, op, cell, name, ret, outcome, lookup, iter,
                   out, first>>

\* AsyncResolver::new(config, opts, TokioHandle): the engine builds resolver
\* number n from the config of OS read cfg, or fails.
NewResolverWithConfig(n, cfg, c) ==
    {[ok |-> TRUE, h |-> [id |-> n, cfg |-> cfg, cell |-> c],
      err |-> NoErr],
     [ok |-> FALSE, h |-> NoHandle, err |-> ConstructError(n)]}

\* NewResolver, had a failed construction been stored in the state cell.
NewResolver_CachesFailure(t) ==
    /\ pc[t] = "nr_ret"
    /\ IF ret[t].kind = "Err"
         THEN /\ stateLock' = [stateLock EXCEPT ![cell[t]] = NoTask]
              /\ Finish(t, Panicked)
              /\ UNCHANGED <<state, built, resolver>>
         ELSE /\ \E r \in NewResolverWithConfig(Cardinality(built) + 1,
                                               ret[t].id, cell[t]) :
                   /\ state' = [state EXCEPT ![cell[t]] = StateReady(r.h)]
                   /\ IF r.ok
                        THEN /\ built' = built \cup {r.h}
                             /\ resolver' = [resolver EXCEPT ![t] = r.h]
                             /\ pc' = [pc EXCEPT ![t] = "drop"]
                             /\ UNCHANGED <<stateLock, outcome>>
                        ELSE /\ stateLock' = [stateLock EXCEPT
                                                ![cell[t]] = NoTask]
                             /\ Finish(t, RetErr(r.err))
                             /\ UNCHANGED <<built, resolver>>
    /\ UNCHANGED <<confVars, adapters, nrCalls, answers, calls, op, cell,
                   name, ret, lookup, iter, out, first>>

\* NewResolver, had the early return on a construction failure kept the
\* guard.
NewResolver_KeepsLockOnFailure(t) ==
    /\ pc[t] = "nr_ret"
    /\ IF ret[t].kind = "Err"
         THEN /\ stateLock' = [stateLock EXCEPT ![cell[t]] = NoTask]
              /\ Finish(t, Panicked)
              /\ UNCHANGED <<state, built, resolver>>
         ELSE /\ \E r \in NewResolverWithConfig(Cardinality(built) + 1,
                                               ret[t].id, cell[t]) :
                   IF r.ok
                     THEN /\ built' = built \cup {r.h}
                          /\ state' = [state EXCEPT
                                         ![cell[t]] = StateReady(r.h)]
                          /\ resolver' = [resolver EXCEPT ![t] = r.h]
                          /\ pc' = [pc EXCEPT ![t] = "drop"]
                          /\ UNCHANGED <<stateLock, outcome>>
                     ELSE /\ Finish(t, RetErr(r.err))
                          /\ UNCHANGED <<state, stateLock, built, resolver>>
    /\ UNCHANGED <<confVars, adapters, nrCalls, answers, calls, op, cell,
                   name, ret, lookup, iter, out, first>>

\* NewResolver, had the resolver been built from the configuration of the
\* first OS read and not from what get_system_conf() has just returned.
NewResolver_UsesFirstConfig(t) ==
    /\ pc[t] = "nr_ret"
    /\ IF ret[t].kind = "Err"
         THEN /\ stateLock' = [stateLock EXCEPT ![cell[t]] = NoTask]
              /\ Finish(t, Panicked)
              /\ UNCHANGED <<state, built, resolver>>
         ELSE /\ \E r \in NewResolverWithConfig(Cardinality(built) + 1,
                                               1, cell[t]) :
                   IF r.ok
                     THEN /\ built' = built \cup {r.h}
                          /\ state' = [state EXCEPT
                                         ![cell[t]] = StateReady(r.h)]
                          /\ resolver' = [resolver EXCEPT ![t] = r.h]
                          /\ pc' = [pc EXCEPT ![t] = "drop"]
                          /\ UNCHANGED <<stateLock, outcome>>
                     ELSE /\ stateLock' = [stateLock EXCEPT
                                             ![cell[t]] = NoTask]
                          /\ Finish(t, RetErr(r.err))
                          /\ UNCHANGED <<state, built, resolver>>
    /\ UNCHANGED <<confVars, adapters, nrCalls, answers, calls, op, cell,
                   name, ret, lookup, iter, out, first>>

\* NewResolver, had the new resolver been used without being stored.
NewResolver_DoesNotStore(t) ==
    /\ pc[t] = "nr_ret"
    /\ IF ret[t].kind = "Err"
         THEN /\ stateLock' = [stateLock EXCEPT ![cell[t]] = NoTask]
              /\ Finish(t, Panicked)
              /\ UNCHANGED <<built, resolver>>
         ELSE /\ \E r \in NewResolverWithConfig(Cardinality(built) + 1,
                                               ret[t].id, cell[t]) :
                   IF r.ok
                     THEN /\ built' = built \cup {r.h}
                          /\ resolver' = [resolver EXCEPT ![t] = r.h]
                          /\ pc' = [pc EXCEPT ![t] = "drop"]
                          /\ UNCHANGED <<stateLock, outcome>>
                     ELSE /\ stateLock' = [stateLock EXCEPT
                                             ![cell[t]] = NoTask]
                          /\ Finish(t, RetErr(r.err))
                          /\ UNCHANGED <<built, resolver>>
    /\ UNCHANGED <<confVars, state, adapters, nrCalls, answers, calls, op,
                   cell, name, ret, lookup, iter, out, first>>

\* The rest of new_resolver() after get_system_conf() returned, and its use
\* in resolve:  .expect(..) panics on a config error (the unwinding drops
\* the guard);  new_resolver().await? returns a construction error (dropping
\* the guard);  otherwise  *lock = State::Ready(resolver.clone()).
NewResolver(t) ==
    /\ pc[t] = "nr_ret"
    /\ IF ret[t].kind = "Err"
         THEN /\ stateLock' = [stateLock EXCEPT ![cell[t]] = NoTask]
              /\ Finish(t, Panicked)
              /\ UNCHANGED <<state, built, resolver>>
         ELSE /\ \E r \in NewResolverWithConfig(Cardinality(built) + 1,
                                               ret[t].id, cell[t]) :
                   IF r.ok
                     THEN /\ built' = built \cup {r.h}
                          /\ state' = [state EXCEPT
                                         ![cell[t]] = StateReady(r.h)]
                          /\ resolver' = [resolver EXCEPT ![t] = r.h]
                          /\ pc' = [pc EXCEPT ![t] = "drop"]
                          /\ UNCHANGED <<stateLock, outcome>>
                     ELSE /\ stateLock' = [stateLock EXCEPT
                                             ![cell[t]] = NoTask]
                          /\ Finish(t, RetErr(r.err))
                          /\ UNCHANGED <<state, built, resolver>>
    /\ UNCHANGED <<confVars, adapters, nrCalls, answers, calls, op, cell,
                   name, ret, lookup, iter, out, first>>

\* DropLock, had the guard been kept across the lookup.
DropLock_KeepsLock(t) ==
    /\ pc[t] = "drop"
    /\ pc' = [pc EXCEPT ![t] = "lookup"]
    /\ UNCHANGED <<confVars, cellVars, calls, op, localVars>>

\* drop(lock);  then resolver.lookup_ip(name.as_str()) is awaited
DropLock(t) ==
    /\ pc[t] = "drop"
    /\ stateLock' = [stateLock EXCEPT ![cell[t]] = NoTask]
    /\ pc' = [pc EXCEPT ![t] = "lookup"]
    /\ UNCHANGED <<confVars, state, adapters, nrCalls, built,
                   answers, calls, op, localVars>>

\* resolver.lookup_ip(name): the engine answers with a list of IPs or with
\* an error.
LookupIp(h, n) ==
    {[ok |-> TRUE, ips |-> l, err |-> NoErr] : l \in answers}
      \cup {[ok |-> FALSE, ips |-> <<>>, err |-> LookupError(h.id)]}

\* LookupDone, had a failed lookup discarded the shared resolver.
LookupDone_ResetsOnError(t) ==
    /\ pc[t] = "lookup"
    /\ \E r \in LookupIp(resolver[t], name[t]) :
         IF r.ok
           THEN /\ lookup' = [lookup EXCEPT ![t] = r.ips]
                /\ iter' = [iter EXCEPT ![t] = r.ips]
                /\ Finish(t, RetOk)
                /\ UNCHANGED state
           ELSE /\ Finish(t, RetErr(r.err))
                /\ state' = [state EXCEPT ![cell[t]] = StateInit]
                /\ UNCHANGED <<lookup, iter>>
    /\ UNCHANGED <<confVars, stateLock, adapters, nrCalls, built, answers,
                   calls, op, cell, name, resolver, ret, out, first>>

\* let lookup = resolver.lookup_ip(name.as_str()).await?;
\* Ok(Box::new(SocketAddrs { iter: lookup.into_iter() }))
LookupDone(t) ==
    /\ pc[t] = "lookup"
    /\ \E r \in LookupIp(resolver[t], name[t]) :
         IF r.ok
           THEN /\ lookup' = [lookup EXCEPT ![t] = r.ips]
                /\ iter' = [iter EXCEPT ![t] = r.ips]
                /\ Finish(t, RetOk)
           ELSE /\ Finish(t, RetErr(r.err))
                /\ UNCHANGED <<lookup, iter>>
    /\ UNCHANGED <<confVars, cellVars, calls, op, cell, name, resolver, ret,
                   out, first>>

\* The points where the future of resolve is suspended: state.lock().await
\* and lookup_ip(..).await  (new_resolver() has no await inside).
AwaitPoints == {"st_lock", "lookup"}

\* Abandon, had a waiter that is dropped been left as the owner of a free
\* lock.
Abandon_LeaksLock(t) ==
    /\ op[t] = "resolve"
    /\ pc[t] \in AwaitPoints
    /\ Finish(t, Cancelled)
    /\ IF pc[t] = "st_lock" /\ stateLock[cell[t]] = NoTask
         THEN stateLock' = [stateLock EXCEPT ![cell[t]] = t]
         ELSE UNCHANGED stateLock
    /\ UNCHANGED <<confVars, state, adapters, nrCalls, built, answers, calls,
                   op, cell, name, resolver, ret, lookup, iter, out, first>>

\* The caller abandons its resolve call: the future is dropped where it is
\* suspended.  A future waiting for the lock is not its owner, and after
\* drop(lock) there is no guard left to release.
Abandon(t) ==
    /\ op[t] = "resolve"
    /\ pc[t] \in AwaitPoints
    /\ Finish(t, Cancelled)
    /\ UNCHANGED <<confVars, cellVars, calls, op, cell, name, resolver, ret,
                   lookup, iter, out, first>>

\* ---- SocketAddrs ----------------------------------------------------------
\* SocketAddrsNext, had the underlying iterator not been advanced.
SocketAddrsNext_NoAdvance(it) ==
    IF it = <<>>
      THEN [item |-> NoneItem, iter |-> it]
      ELSE [item |-> SomeItem(SocketAddr(Head(it), 0)), iter |-> it]

\* self.iter.next().map(|ip_addr| SocketAddr::new(ip_addr, 0))
SocketAddrsNext(it) ==
    IF it = <<>>
      THEN [item |-> NoneItem, iter |-> it]
      ELSE [item |-> SomeItem(SocketAddr(Head(it), 0)), iter |-> Tail(it)]

\* The caller of resolve advances the sequence it was given.
NextAddr(t) ==
    /\ pc[t] = "done"
    /\ op[t] = "resolve"
    /\ outcome[t].kind = "Ok"
    /\ Len(out[t]) < Len(lookup[t]) + MaxExtraNext
    /\ LET r == SocketAddrsNext(iter[t])
       IN  /\ out' = [out EXCEPT ![t] = Append(@, r.item)]
           /\ iter' = [iter EXCEPT ![t] = r.iter]
    /\ UNCHANGED <<confVars, cellVars, calls, pc, op, cell, name, resolver,
                   ret, outcome, lookup, first>>

Next ==
    \E t \in Tasks :
      \/ GetSystemConfLock(t)
      \/ GetSystemConfBody(t)
      \/ ReinitCall(t)
      \/ ReinitLock(t)
      \/ ReinitBody(t)
      \/ NewCall(t)
      \/ NewReturn(t)
      \/ \E a \in 1..Len(adapters) : CloneAdapter(t, a)
      \/ \E a \in 1..Len(adapters), n \in Names : ResolveCall(t, a, n)
      \/ AcquireState(t)
      \/ MatchState(t)
      \/ NewResolver(t)
      \/ DropLock(t)
      \/ LookupDone(t)
      \/ Abandon(t)

Spec == Init /\ [][Next]_vars

\* The scheduling behind the calls: both mutexes are fair (a waiter that can
\* take the lock again and again does take it), read_system_conf(),
\* AsyncResolver::new() and lookup_ip() terminate, and a task that can run
\* does run.  Nothing obliges a caller to start a call or to abandon one.
Fairness ==
    \A t \in Tasks :
      /\ SF_vars(AcquireState(t))
      /\ SF_vars(GetSystemConfLock(t))
      /\ SF_vars(ReinitLock(t))
      /\ WF_vars(GetSystemConfBody(t))
      /\ WF_vars(ReinitBody(t))
      /\ WF_vars(NewReturn(t))
      /\ WF_vars(MatchState(t))
      /\ WF_vars(NewResolver(t))
      /\ WF_vars(DropLock(t))
      /\ WF_vars(LookupDone(t))

SpecFair == Spec /\ Fairness

\* ---- the address sequence on its own --------------------------------------
\* One adapter is Ready and every task is in the lookup of a resolve call on
\* it; the engine may answer with any list of IpLists.
AddrsHandle == [id |-> 1, cfg |-> 1, cell |-> 1]

InitAddrs ==
    /\ conf = ConfOk(1)
    /\ confLock = NoTask
    /\ osReads = 1
    /\ state = <<StateReady(AddrsHandle)>>
    /\ stateLock = <<NoTask>>
    /\ adapters = <<1>>
    /\ nrCalls = <<1>>
    /\ built = {AddrsHandle}
    /\ answers = IpLists
    /\ calls = NumTasks + 1
    /\ pc = [t \in Tasks |-> "lookup"]
    /\ op = [t \in Tasks |-> "resolve"]
    /\ cell = [t \in Tasks |-> 1]
    /\ name \in [Tasks -> Names]
    /\ resolver = [t \in Tasks |-> AddrsHandle]
    /\ ret = [t \in Tasks |-> IF t = 1 THEN ConfOk(1) ELSE NotComputed]
    /\ outcome = [t \in Tasks |-> NoOutcome]
    /\ lookup = [t \in Tasks |-> <<>>]
    /\ iter = [t \in Tasks |-> <<>>]
    /\ out = [t \in Tasks |-> <<>>]
    /\ first = [t \in Tasks |-> FALSE]

NextAddrs == \E t \in Tasks : LookupDone(t) \/ NextAddr(t)

SpecAddrs == InitAddrs /\ [][NextAddrs]_vars

\* ---- properties ------------------------------------------------------------
\* The resolvers built for cell c.
BuiltFor(c) == {h \in built : h.cell = c}

\* Task t is inside new_resolver(), called from its resolve.
InNewResolver(t) ==
    op[t] = "resolve" /\ pc[t] \in {"gsc_lock", "gsc_body", "nr_ret"}

\* Task t is in a resolve call and has its local `resolver` handle.
HasHandle(t) == op[t] = "resolve" /\ resolver[t] # NoHandle

\* Task t has invoked new_resolver() in its resolve call.
Invoked(t) ==
    op[t] = "resolve" /\ (InNewResolver(t) \/ ret[t] # NotComputed)

\* C1, as stated: of the concurrent resolve calls that start before the
\* construction routine was ever invoked for their adapter, exactly one
\* invokes it, and all of them look up on the same handle.
C1_ConstructedExactlyOnce ==
    \A t, u \in Tasks :
      (t # u /\ first[t] /\ first[u] /\ cell[t] = cell[u])
        => /\ ~(Invoked(t) /\ Invoked(u))
           /\ (HasHandle(t) /\ HasHandle(u)) => resolver[t] = resolver[u]

\* C1, amended: the construction succeeds at most once for an adapter; the
\* routine runs only while the state is Init, in one task at a time (so it
\* is invoked again only after an invocation that failed); and every call
\* that has its handle has the one stored in the state cell.
C1_OneSuccessfulConstruction ==
    \A c \in Cells :
      /\ Cardinality(BuiltFor(c)) <= 1
      /\ BuiltFor(c) =
           (IF state[c].tag = "Ready" THEN {state[c].h} ELSE {})
      /\ \A t, u \in Tasks :
           (InNewResolver(t) /\ InNewResolver(u) /\ cell[t] = c
              /\ cell[u] = c) => (t = u /\ state[c] = StateInit)
      /\ \A t \in Tasks :
           (HasHandle(t) /\ cell[t] = c) => state[c] = StateReady(resolver[t])

\* C1 witness: two concurrent first-time calls are both in their lookup, on
\* the handle that the one invocation of the routine built.
C1_Witness ==
    \E t, u \in Tasks :
      /\ t # u /\ first[t] /\ first[u] /\ cell[t] = cell[u]
      /\ pc[t] = "lookup" /\ pc[u] = "lookup"
      /\ resolver[t] = resolver[u]
      /\ Cardinality(BuiltFor(cell[t])) = 1

\* C2: the owner of a state lock is inside the check-and-construct step; a
\* task in its lookup, or one whose call has returned, owns no state lock.
C2_NoLockDuringLookup ==
    \A c \in Cells :
      stateLock[c] # NoTask =>
        /\ cell[stateLock[c]] = c
        /\ op[stateLock[c]] = "resolve"
        /\ pc[stateLock[c]] \in
             {"match", "gsc_lock", "gsc_body", "nr_ret", "drop"}

\* C2 witness: while one task is in its lookup, another has taken the lock
\* of the same, Ready, cell and is about to start its own lookup.
C2_Witness ==
    \E t, u \in Tasks :
      /\ t # u /\ cell[t] = cell[u]
      /\ pc[t] = "lookup"
      /\ pc[u] = "drop" /\ stateLock[cell[u]] = u
      /\ state[cell[u]].tag = "Ready"

\* C3: a resolve that finds Init invokes new_resolver() (one more invocation
\* each time), and when the construction fails the call returns the
\* ConstructError, the cell is Init and unlocked, and nothing was built.
C3_FailedConstructionRetried ==
    [][\A t \in Tasks :
         /\ (pc[t] = "match" /\ pc'[t] # "match"
               /\ state[cell[t]].tag = "Init")
              => /\ nrCalls'[cell[t]] = nrCalls[cell[t]] + 1
                 /\ InNewResolver(t)'
         /\ (pc[t] = "nr_ret" /\ pc'[t] = "done" /\ outcome'[t].kind = "Err")
              => /\ outcome'[t].err = ConstructError(Cardinality(built) + 1)
                 /\ state'[cell[t]] = StateInit
                 /\ stateLock'[cell[t]] = NoTask
                 /\ built' = built
         /\ (pc[t] = "nr_ret" /\ pc'[t] = "done")
              => outcome'[t].kind \in {"Err", "Panic"}]_vars

\* C3 witness: a call returned a ConstructError, and a later attempt on the
\* same cell (the second invocation) made it Ready.
C3_Witness ==
    \E t \in Tasks :
      /\ pc[t] = "done" /\ op[t] = "resolve"
      /\ outcome[t].err.type = "ConstructError"
      /\ nrCalls[cell[t]] = 2
      /\ state[cell[t]].tag = "Ready"

\* Task t takes a step of its call (and does not start a call).
Steps(t) == pc'[t] # pc[t] /\ op'[t] = op[t] /\ pc[t] \notin {"idle", "done"}

\* C4: when get_system_conf() yields an error to new(), new() returns an
\* error and produces no adapter; and no step of a failing new() changes a
\* state cell, invokes new_resolver() or builds a resolver.
C4_FailedNewProducesNothing ==
    [][\A t \in Tasks :
         /\ (Steps(t) /\ pc[t] = "new_ret" /\ ret[t].kind = "Err")
              => /\ pc'[t] = "done"
                 /\ outcome'[t].kind = "Err"
                 /\ outcome'[t].err.type = "ConfigError"
                 /\ adapters' = adapters
                 /\ state' = state
         /\ (Steps(t) /\ op[t] = "new")
              => /\ nrCalls' \in {nrCalls, Append(nrCalls, 0)}
                 /\ built' = built
                 /\ \A c \in Cells : state'[c] = state[c]]_vars

\* C4 witness: new() has failed on the error of the first OS read, and there
\* is no adapter.
C4_Witness ==
    \E t \in Tasks :
      /\ pc[t] = "done" /\ op[t] = "new"
      /\ outcome[t].kind = "Err" /\ ret[t] = ConfErr(1)
      /\ adapters = <<>> /\ state = <<>>

\* C5: reinitialize_system_conf() makes the snapshot not-yet-computed and
\* changes no state cell; the next get_system_conf() reads the OS config
\* again; a resolve that finds Ready, whatever the snapshot, takes the
\* handle of the cell and constructs nothing.
C5_ReinitLeavesAdapters ==
    [][\A t \in Tasks :
         /\ (Steps(t) /\ op[t] = "reinit")
              => /\ state' = state /\ built' = built /\ nrCalls' = nrCalls
                 /\ adapters' = adapters /\ osReads' = osReads
                 /\ (pc[t] = "ri_body" => conf' = NotComputed)
         /\ (Steps(t) /\ pc[t] = "gsc_body" /\ conf = NotComputed)
              => /\ osReads' = osReads + 1
                 /\ conf' \in {ConfOk(osReads'), ConfErr(osReads')}
         /\ (Steps(t) /\ pc[t] = "match" /\ state[cell[t]].tag = "Ready")
              => /\ resolver'[t] = state[cell[t]].h
                 /\ pc'[t] = "drop"
                 /\ state' = state /\ built' = built
                 /\ nrCalls' = nrCalls /\ osReads' = osReads]_vars

\* C5 witness: the snapshot has been computed and then invalidated, and a
\* resolve call holds the lock of a Ready cell, about to look at its state.
C5_Witness ==
    \E t \in Tasks :
      /\ pc[t] = "match" /\ state[cell[t]].tag = "Ready"
      /\ conf = NotComputed /\ osReads >= 1

\* What n next() calls yield on a sequence made from the IPs l.
Yielded(l, n) ==
    [i \in 1..n |-> IF i <= Len(l)
                      THEN [some |-> TRUE,
                            addr |-> [ip |-> l[i], port |-> 0]]
                      ELSE [some |-> FALSE, addr |-> [ip |-> 0, port |-> 0]]]

\* C6: the next() calls made so far on the sequence of a successful resolve
\* yielded the IPs of the lookup, in order, each with port 0, and nothing
\* from then on; the sequence holds the IPs not yet yielded.
C6_AddressesInOrder ==
    \A t \in Tasks :
      (pc[t] = "done" /\ op[t] = "resolve")
        => /\ out[t] = Yielded(lookup[t], Len(out[t]))
           /\ outcome[t] = RetOk =>
                iter[t] = SubSeq(lookup[t], Len(out[t]) + 1, Len(lookup[t]))
           /\ outcome[t] # RetOk => (out[t] = <<>> /\ iter[t] = <<>>)

\* C6 witness: a lookup of two different IPs was yielded completely, and
\* one more next() yielded nothing.
C6_Witness ==
    \E t \in Tasks :
      /\ pc[t] = "done" /\ outcome[t] = RetOk
      /\ lookup[t] = <<1, 2>>
      /\ Len(out[t]) = 3 /\ ~out[t][3].some

\* C7: while the snapshot is an error, get_system_conf() returns that error
\* and reads nothing, and only reinitialize_system_conf() changes it.
C7_ConfigErrorCached ==
    [][/\ \A t \in Tasks :
            (Steps(t) /\ pc[t] = "gsc_body" /\ conf.kind = "Err")
              => /\ ret'[t] = conf
                 /\ conf' = conf
                 /\ osReads' = osReads
       /\ (conf.kind = "Err" /\ conf' # conf)
            => /\ conf' = NotComputed
               /\ \E t \in Tasks :
                    Steps(t) /\ op[t] = "reinit" /\ pc[t] = "ri_body"]_vars

\* C7 witness: two get_system_conf() calls returned the error of the one OS
\* read made so far.
C7_Witness ==
    \E t, u \in Tasks :
      /\ t # u /\ osReads = 1
      /\ ret[t] = ConfErr(1) /\ ret[u] = ConfErr(1)

\* C8, for resolve: a call that has returned was not ended by a panic, and
\* if get_system_conf() gave it an error, it returned that ConfigError.
C8_ResolveReturnsConfigError ==
    \A t \in Tasks :
      (pc[t] = "done" /\ op[t] = "resolve")
        => /\ outcome[t].kind # "Panic"
           /\ ret[t].kind = "Err"
                => outcome[t] = RetErr(ConfigError(ret[t].id))

\* C9: a lookup that fails returns its LookupError to the caller of that
\* call and changes neither a state cell or lock, nor the snapshot, nor
\* anything of another task.
C9_LookupErrorIsLocal ==
    [][\A t \in Tasks :
         (Steps(t) /\ pc[t] = "lookup" /\ outcome'[t].kind = "Err")
           => /\ pc'[t] = "done"
              /\ outcome'[t] = RetErr(LookupError(resolver[t].id))
              /\ state' = state /\ stateLock' = stateLock
              /\ built' = built /\ conf' = conf
              /\ \A u \in Tasks \ {t} :
                   /\ pc'[u] = pc[u] /\ resolver'[u] = resolver[u]
                   /\ outcome'[u] = outcome[u] /\ lookup'[u] = lookup[u]
                   /\ iter'[u] = iter[u]]_vars

\* C9 witness: one call returned a LookupError, and another call on the same
\* handle, still the one of the Ready cell, returned addresses.
C9_Witness ==
    \E t, u \in Tasks :
      /\ t # u /\ pc[t] = "done" /\ pc[u] = "done"
      /\ outcome[t].err.type = "LookupError"
      /\ outcome[u] = RetOk /\ op[u] = "resolve"
      /\ resolver[t] = resolver[u]
      /\ state[cell[t]] = StateReady(resolver[t])

\* C10: a cell is Init when new() creates it; a Ready cell keeps its handle
\* in every step; and a resolve that finds Ready does not invoke
\* new_resolver().
C10_ReadyForever ==
    [][/\ \A c \in Cells :
            /\ c \in DOMAIN state'
            /\ state[c].tag = "Ready" => state'[c] = state[c]
       /\ \A c \in DOMAIN state' \ Cells : state'[c] = StateInit
       /\ \A t \in Tasks :
            (Steps(t) /\ pc[t] = "match" /\ state[cell[t]].tag = "Ready")
              => (~InNewResolver(t)' /\ nrCalls' = nrCalls)]_vars

\* C10 witness: a cell is Ready with a resolver built from the first OS
\* read, after the snapshot was invalidated and read again.
C10_Witness ==
    \E c \in Cells :
      /\ state[c].tag = "Ready" /\ state[c].h.cfg = 1
      /\ osReads = 2 /\ conf.kind # "None"

\* Task t is inside the critical section of the SYSTEM_CONF mutex.
InConfSection(t) == pc[t] \in {"gsc_body", "ri_body"}

\* C11: the callers of get_system_conf() are serialized by the SYSTEM_CONF
\* mutex (one task at a time, the owner, is inside it); the OS config is
\* read only while the snapshot is not computed, once, by the owner; and
\* every caller that returned since the latest read holds a copy of the
\* outcome of that read, which is the snapshot.
C11_ConcurrentGetsReadOnce ==
    /\ [](/\ \A t, u \in Tasks :
               (InConfSection(t) /\ InConfSection(u)) => t = u
          /\ \A t \in Tasks : InConfSection(t) <=> confLock = t
          /\ conf # NotComputed => conf.id = osReads
          /\ \A t \in Tasks :
               (ret[t] # NotComputed /\ ret[t].id = osReads
                  /\ conf # NotComputed) => ret[t] = conf)
    /\ [][osReads' # osReads
            => /\ conf = NotComputed
               /\ osReads' = osReads + 1
               /\ conf' \in {ConfOk(osReads'), ConfErr(osReads')}
               /\ confLock # NoTask /\ pc[confLock] = "gsc_body"
               /\ ret'[confLock] = conf']_vars

\* C11 witness: one call has got the outcome of the only OS read, and
\* another call is inside get_system_conf(), where it finds that outcome.
C11_Witness ==
    \E t, u \in Tasks :
      /\ t # u /\ osReads = 1
      /\ ret[t] = conf /\ conf # NotComputed
      /\ pc[u] = "gsc_body" /\ ret[u] = NotComputed

\* C12: the snapshot changes only from not-computed to the outcome of a new
\* OS read, in get_system_conf(), and from anything to not-computed, in
\* reinitialize_system_conf(); a get_system_conf() that finds a computed
\* snapshot returns it as it is.
C12_SnapshotChanges ==
    [][/\ conf' # conf
            => \/ /\ conf = NotComputed
                  /\ conf' \in {ConfOk(osReads + 1), ConfErr(osReads + 1)}
                  /\ \E t \in Tasks : Steps(t) /\ pc[t] = "gsc_body"
               \/ /\ conf' = NotComputed
                  /\ \E t \in Tasks : Steps(t) /\ pc[t] = "ri_body"
       /\ \A t \in Tasks :
            (Steps(t) /\ pc[t] = "gsc_body")
              => /\ ret'[t] = conf'
                 /\ conf # NotComputed => conf' = conf]_vars

\* C12 witness: the snapshot was computed, invalidated and computed again,
\* and a call got the second outcome.
C12_Witness ==
    \E t \in Tasks :
      osReads = 2 /\ conf # NotComputed /\ conf.id = 2 /\ ret[t] = conf

\* C13: abandoning a resolve call that waits for the state lock changes
\* nothing but that call: no lock owner, no state cell, not the snapshot, no
\* invocation of new_resolver(), no other task; an abandoned call owns no
\* lock, so a free lock stays free for the calls that wait for it.
C13_AbandonedWaiterHasNoEffect ==
    /\ [][\A t \in Tasks :
            (Steps(t) /\ pc[t] = "st_lock" /\ outcome'[t] = Cancelled)
              => /\ stateLock' = stateLock /\ confLock' = confLock
                 /\ state' = state /\ conf' = conf /\ osReads' = osReads
                 /\ nrCalls' = nrCalls /\ built' = built
                 /\ adapters' = adapters
                 /\ \A u \in Tasks \ {t} :
                      /\ pc'[u] = pc[u]
                      /\ pc[u] = "st_lock" /\ stateLock[cell[u]] = NoTask
                           => stateLock'[cell[u]] = NoTask]_vars
    /\ [](\A t \in Tasks :
            outcome[t] = Cancelled
              => /\ confLock # t
                 /\ \A c \in Cells : stateLock[c] # t)

\* C13 witness: a call was abandoned before it had a handle, that is while
\* it waited for the lock, and another call owns that lock now.
C13_Witness ==
    \E t, u \in Tasks :
      /\ t # u /\ pc[t] = "done" /\ outcome[t] = Cancelled
      /\ resolver[t] = NoHandle
      /\ stateLock[cell[t]] = u /\ pc[u] = "match"

\* C14: a successful new() adds an adapter whose cell is Init and for which
\* new_resolver() was never invoked, and builds nothing; only a step of a
\* resolve call changes a cell, invokes new_resolver() or builds a resolver;
\* so a cell for which new_resolver() was never invoked is Init, with
\* nothing built.
C14_NewConstructsNothing ==
    /\ [][/\ \A t \in Tasks :
               (Steps(t) /\ op[t] = "new" /\ outcome'[t].kind = "Ok")
                 => /\ ret[t].kind = "Ok"
                    /\ state' = Append(state, StateInit)
                    /\ nrCalls' = Append(nrCalls, 0)
                    /\ adapters' = Append(adapters, Len(state'))
                    /\ built' = built
          /\ (built' # built
                \/ \E c \in Cells :
                     state'[c] # state[c] \/ nrCalls'[c] # nrCalls[c])
               => \E t \in Tasks : Steps(t) /\ op[t] = "resolve"]_vars
    /\ [](\A c \in Cells :
            nrCalls[c] = 0 => state[c] = StateInit /\ BuiltFor(c) = {})

\* C14 witness: two new() calls have succeeded, no task has called resolve,
\* and both adapters are Init with nothing constructed.
C14_Witness ==
    /\ adapters = <<1, 2>> /\ state = <<StateInit, StateInit>>
    /\ nrCalls = <<0, 0>> /\ built = {}
    /\ \A t \in Tasks :
         op[t] = "new" /\ pc[t] = "done" /\ outcome[t] = RetOk

\* Task t is inside the check-and-construct step of its resolve call:
\* between  state.lock().await  and  drop(lock).
InCheckAndConstruct(t) ==
    /\ op[t] = "resolve"
    /\ pc[t] \in {"match", "gsc_lock", "gsc_body", "nr_ret", "drop"}

\* C15: at most one task per state cell is inside the check-and-construct
\* step, and it is the owner of the lock of the cell; a state cell is
\* written only in a step of the owner of its lock; and the lookup completes
\* whoever owns the lock, without touching it.
C15_SingleWriterViaLock ==
    /\ [](\A t \in Tasks :
            /\ InCheckAndConstruct(t) <=>
                 (\E c \in Cells : stateLock[c] = t)
            /\ InCheckAndConstruct(t) => stateLock[cell[t]] = t
            /\ \A u \in Tasks :
                 (InCheckAndConstruct(t) /\ InCheckAndConstruct(u)
                    /\ cell[t] = cell[u]) => t = u)
    /\ [][/\ \A c \in Cells :
               state'[c] # state[c]
                 => /\ stateLock[c] # NoTask
                    /\ Steps(stateLock[c])
                    /\ InCheckAndConstruct(stateLock[c])
          /\ \A t \in Tasks :
               (Steps(t) /\ pc[t] = "lookup")
                 => stateLock[cell[t]] # t /\ stateLock' = stateLock]_vars

\* C15 witness: a task is in its lookup while another task owns the lock of
\* the same cell and is looking at its state.
C15_Witness ==
    \E t, u \in Tasks :
      /\ t # u /\ cell[t] = cell[u] /\ op[t] = "resolve"
      /\ pc[t] = "lookup"
      /\ pc[u] = "match" /\ stateLock[cell[u]] = u

\* C16: a task in its lookup queries the handle stored in the cell of its
\* adapter, which is Ready, and that handle was built for this cell; the
\* lookup step does not change the handle.
C16_LookupOnStoredHandle ==
    /\ [](\A t \in Tasks :
            (op[t] = "resolve" /\ pc[t] = "lookup")
              => /\ state[cell[t]].tag = "Ready"
                 /\ state[cell[t]].h = resolver[t]
                 /\ resolver[t] \in BuiltFor(cell[t]))
    /\ [][\A t \in Tasks :
            (Steps(t) /\ pc[t] = "lookup")
              => /\ resolver'[t] = resolver[t]
                 /\ state'[cell[t]] = StateReady(resolver[t])]_vars

\* C16 witness: a call that started after new_resolver() had been invoked
\* for its adapter is in its lookup, on the handle it found in the cell.
C16_Witness ==
    \E t \in Tasks :
      /\ op[t] = "resolve" /\ pc[t] = "lookup" /\ ~first[t]
      /\ ret[t] = NotComputed
      /\ state[cell[t]] = StateReady(resolver[t])

\* The state lock or the config lock that task t owns.
OwnsStateLock(t) == \E c \in Cells : stateLock[c] = t
OwnsConfLock(t) == confLock = t

\* C17: every call that was started completes (it returns, or unwinds from
\* the panic of new_resolver(), or was abandoned); a task that leaves the
\* check-and-construct step, by whichever exit, leaves the state lock free,
\* and a task that leaves get_system_conf() or reinitialize_system_conf()
\* leaves the config lock free; the owner of the config lock is inside
\* get_system_conf() or reinitialize_system_conf() and waits for no lock,
\* and no task takes a state lock while it owns the config lock.
C17_EveryCallCompletes ==
    /\ \A t \in Tasks : (pc[t] \notin {"idle", "done"}) ~> (pc[t] = "done")
    /\ [](\A t \in Tasks :
            /\ OwnsConfLock(t) => InConfSection(t)
            /\ pc[t] \in {"idle", "done"}
                 => ~OwnsStateLock(t) /\ ~OwnsConfLock(t)
            /\ pc[t] \in {"st_lock", "gsc_lock", "ri_lock"}
                 => ~OwnsConfLock(t))
    /\ [][\A t \in Tasks :
            /\ (InCheckAndConstruct(t) /\ ~InCheckAndConstruct(t)')
                 => stateLock'[cell[t]] = NoTask
            /\ (InConfSection(t) /\ ~InConfSection(t)') => confLock' = NoTask
            /\ (~OwnsStateLock(t) /\ OwnsStateLock(t)') => ~OwnsConfLock(t)
            /\ (~OwnsConfLock(t) /\ OwnsConfLock(t)')
                 => \A c \in Cells : stateLock[c] = t => c = cell[t]]_vars

\* C17 witness: a task owns the state lock of its adapter and, inside
\* get_system_conf(), the config lock, while another task waits for that
\* state lock.
C17_Witness ==
    \E t, u \in Tasks :
      /\ t # u /\ cell[t] = cell[u]
      /\ pc[t] = "gsc_body" /\ op[t] = "resolve"
      /\ OwnsStateLock(t) /\ OwnsConfLock(t)
      /\ pc[u] = "st_lock"

\* C18: the get_system_conf() of a resolve call that finds the snapshot
\* not computed reads the OS configuration again and returns what it read;
\* the resolver that the call then stores was built from the configuration
\* this get_system_conf() returned, in a cell that was Init; and a Ready
\* cell, with the configuration of its resolver, never changes.
C18_BuiltFromSnapshotOfFirstResolve ==
    [][/\ \A t \in Tasks :
            /\ (Steps(t) /\ op[t] = "resolve" /\ pc[t] = "gsc_body")
                 => /\ ret'[t] = conf'
                    /\ conf = NotComputed
                         => osReads' = osReads + 1 /\ conf'.id = osReads'
                    /\ conf # NotComputed => conf' = conf
            /\ (Steps(t) /\ pc[t] = "nr_ret" /\ pc'[t] = "drop")
                 => /\ ret[t].kind = "Ok"
                    /\ state[cell[t]] = StateInit
                    /\ state'[cell[t]].tag = "Ready"
                    /\ state'[cell[t]].h.cfg = ret[t].id
       /\ \A c \in Cells :
            state[c].tag = "Ready" => state'[c] = state[c]]_vars

\* C18 witness: new() succeeded on the configuration of the first OS read,
\* the snapshot was invalidated, and the only adapter has a resolver built
\* from the configuration of the second OS read.
C18_Witness ==
    \E t \in Tasks :
      /\ op[t] = "new" /\ pc[t] = "done" /\ outcome[t] = RetOk
      /\ ret[t] = ConfOk(1)
      /\ Len(state) = 1 /\ state[1].tag = "Ready" /\ state[1].h.cfg = 2

\* The adapters that point to cell c: an adapter made by new() and its
\* clones.
Family(c) == {a \in DOMAIN adapters : adapters[a] = c}

\* C19: a step that adds an adapter is the return of new(), which gives it
\* a fresh Init cell, or a clone, which gives it the cell of an existing
\* adapter and adds no cell; a resolve call takes the cell of the adapter it
\* is called on and changes no other cell; at most one resolver was built
\* for a cell, so for all the adapters that point to it, and the calls on
\* these adapters that have their handle have that one; resolvers of
\* different cells are different.
C19_ClonesShareTheCell ==
    /\ [][/\ adapters' # adapters
               => \/ /\ adapters' = Append(adapters, Len(state) + 1)
                     /\ state' = Append(state, StateInit)
                     /\ \E t \in Tasks : Steps(t) /\ op[t] = "new"
                  \/ /\ \E a \in DOMAIN adapters :
                          adapters' = Append(adapters, adapters[a])
                     /\ state' = state /\ stateLock' = stateLock
                     /\ pc' = pc
          /\ \A t \in Tasks :
               /\ (pc'[t] = "st_lock" /\ pc[t] # "st_lock")
                    => Family(cell'[t]) # {}
               /\ (Steps(t) /\ op[t] = "resolve")
                    => /\ cell'[t] = cell[t]
                       /\ \A c \in Cells \ {cell[t]} :
                            /\ state'[c] = state[c]
                            /\ stateLock'[c] = stateLock[c]]_vars
    /\ [](/\ \A c \in Cells :
               /\ Family(c) # {}
               /\ Cardinality(BuiltFor(c)) <= 1
               /\ \A t \in Tasks :
                    (HasHandle(t) /\ cell[t] = c)
                      => BuiltFor(c) = {resolver[t]}
          /\ \A h, g \in built : h.cell # g.cell => h.id # g.id)

\* C19 witness: of three adapters the second is a clone of the first, and
\* the third was made by another new(); a call on the first two has the one
\* resolver built for their cell, and a call on the third has another
\* resolver, built for its own cell.
C19_Witness ==
    \E t, u \in Tasks :
      /\ adapters = <<1, 1, 2>>
      /\ HasHandle(t) /\ cell[t] = 1 /\ HasHandle(u) /\ cell[u] = 2
      /\ state[1] = StateReady(resolver[t])
      /\ state[2] = StateReady(resolver[u])
      /\ resolver[t] # resolver[u]

====
